---- MODULE Spec2Model ----
(***************************************************************************)
(* Tic-tac-toe with move history (the React tutorial game).                *)
(*                                                                         *)
(* The history-bearing Game component (src/unnamed/part_000) owns          *)
(*   state.history    : list of { squares: Array(9) } snapshots            *)
(*   state.stepNumber : index of the snapshot shown                        *)
(*   state.xIsNext    : stored turn flag                                   *)
(* and changes them in handleClick(i) and jumpTo(step).  calculateWinner   *)
(* is a pure function of a squares array.                                  *)
(*                                                                         *)
(* The simpler variant (src/src/index.js) keeps squares and xIsNext in the *)
(* Board component and has no history.                                     *)
(*                                                                         *)
(* JavaScript arrays are 0-based: a squares array is a function on 0..8,   *)
(* history is a TLA+ sequence, so JavaScript history[k] is history[k + 1]. *)
(***************************************************************************)
EXTENDS Integers, Sequences, FiniteSets

VARIABLES
    history,      \* Game.state.history
    stepNumber,   \* Game.state.stepNumber
    xIsNext,      \* Game.state.xIsNext
    lastOp,       \* the last handler that ran: [op, arg, ok]; arg is the step of a
                  \* jump or the square of a click (Taken for a taken square), ok
                  \* tells whether the handler called setState
    nAccepted,    \* accepted handleClick calls so far
    board,        \* the argument handed to calculateWinner (pure-function runs)
    result,       \* what calculateWinner returned for board
    boardState    \* Board.state of the variant without history: [squares, xIsNext]

state == <<history, stepNumber, xIsNext>>
vars == <<history, stepNumber, xIsNext, lastOp, nAccepted, board, result, boardState>>

----------------------------------------------------------------------------
(* Values.                                                                 *)

NumSquares == 9

Null == "null"

Unset == "unset"

Marks == {"X", "O"}

Indices == 0 .. (NumSquares - 1)

EmptySquares == [c \in Indices |-> Null]

AllBoards == [Indices -> Marks \cup {Null}]

\* The lines table of calculateWinner, in source order.
Lines ==
    << <<0, 1, 2>>,
       <<3, 4, 5>>,
       <<6, 7, 8>>,
       <<0, 3, 6>>,
       <<1, 4, 7>>,
       <<2, 5, 8>>,
       <<0, 4, 8>>,
       <<2, 4, 6>> >>

----------------------------------------------------------------------------
(* calculateWinner.                                                        *)

\* The for loop from index i on: the first line whose three squares hold the
\* same truthy value decides, null when the loop runs out.
RECURSIVE ScanLines(_, _, _)
ScanLines(squares, lines, i) ==
    IF i > Len(lines)
    THEN Null
    ELSE LET a == lines[i][1]
             b == lines[i][2]
             c == lines[i][3]
         IN  IF squares[a] # Null /\ squares[a] = squares[b] /\ squares[a] = squares[c]
             THEN squares[a]
             ELSE ScanLines(squares, lines, i + 1)

\* Variant: the loop runs over the table from its last line to its first.
calculateWinnerBackwards(squares) ==
    ScanLines(squares, [k \in 1 .. Len(Lines) |-> Lines[Len(Lines) + 1 - k]], 1)

\* Variant: the test compares only the first two squares of a line.
RECURSIVE ScanTwo(_, _)
ScanTwo(squares, i) ==
    IF i > Len(Lines)
    THEN Null
    ELSE LET a == Lines[i][1]
             b == Lines[i][2]
         IN  IF squares[a] # Null /\ squares[a] = squares[b]
             THEN squares[a]
             ELSE ScanTwo(squares, i + 1)

calculateWinnerTwoCells(squares) ==
    ScanTwo(squares, 1)

calculateWinner(squares) ==
    ScanLines(squares, Lines, 1)

----------------------------------------------------------------------------
(* Game.handleClick and Game.jumpTo.                                       *)

\* Variant: the guard tests only whether the square is taken.
handleClickNoWinnerCheck(i) ==
    LET hist == SubSeq(history, 1, stepNumber + 1)
        current == hist[Len(hist)]
        squares == current.squares
    IN  IF squares[i] # Null
        THEN UNCHANGED state
        ELSE /\ history' = hist \o
                  << [squares |-> [squares EXCEPT ![i] = IF xIsNext THEN "X" ELSE "O"]] >>
             /\ stepNumber' = Len(hist)
             /\ xIsNext' = ~xIsNext

\* Variant: the turn flag is not flipped.
handleClickKeepTurn(i) ==
    LET hist == SubSeq(history, 1, stepNumber + 1)
        current == hist[Len(hist)]
        squares == current.squares
    IN  IF squares[i] # Null \/ calculateWinner(squares) # Null
        THEN UNCHANGED state
        ELSE /\ history' = hist \o
                  << [squares |-> [squares EXCEPT ![i] = IF xIsNext THEN "X" ELSE "O"]] >>
             /\ stepNumber' = Len(hist)
             /\ xIsNext' = xIsNext

\* Variant: stepNumber is not advanced.
handleClickKeepStep(i) ==
    LET hist == SubSeq(history, 1, stepNumber + 1)
        current == hist[Len(hist)]
        squares == current.squares
    IN  IF squares[i] # Null \/ calculateWinner(squares) # Null
        THEN UNCHANGED state
        ELSE /\ history' = hist \o
                  << [squares |-> [squares EXCEPT ![i] = IF xIsNext THEN "X" ELSE "O"]] >>
             /\ stepNumber' = stepNumber
             /\ xIsNext' = ~xIsNext

\* Variant: the guard tests only whether the snapshot has a winner.
handleClickNoTakenCheck(i) ==
    LET hist == SubSeq(history, 1, stepNumber + 1)
        current == hist[Len(hist)]
        squares == current.squares
    IN  IF calculateWinner(squares) # Null
        THEN UNCHANGED state
        ELSE /\ history' = hist \o
                  << [squares |-> [squares EXCEPT ![i] = IF xIsNext THEN "X" ELSE "O"]] >>
             /\ stepNumber' = Len(hist)
             /\ xIsNext' = ~xIsNext

\* handleClick(i): slice the history at stepNumber, copy the last snapshot,
\* return when it has a winner or square i is taken, else mark the square and
\* set the three fields.  The guard is calculateWinner(squares) || squares[i]:
\* neither test has an effect, so the disjunction is the same in either
\* order.
handleClick(i) ==
    LET hist == SubSeq(history, 1, stepNumber + 1)
        current == hist[Len(hist)]
        squares == current.squares
    IN  IF squares[i] # Null \/ calculateWinner(squares) # Null
        THEN UNCHANGED state
        ELSE /\ history' = hist \o
                  << [squares |-> [squares EXCEPT ![i] = IF xIsNext THEN "X" ELSE "O"]] >>
             /\ stepNumber' = Len(hist)
             /\ xIsNext' = ~xIsNext

\* jumpTo(step): setState merges stepNumber and xIsNext, history stays.
jumpTo(step) ==
    /\ stepNumber' = step
    /\ xIsNext' = ((step % 2) = 0)
    /\ history' = history

----------------------------------------------------------------------------
(* The variant without history: Board.handleClick of src/src/index.js.     *)

\* The lines table of that file's calculateWinner, in source order.
BoardLines ==
    << <<0, 1, 2>>,
       <<3, 4, 5>>,
       <<6, 7, 8>>,
       <<0, 3, 6>>,
       <<1, 4, 7>>,
       <<2, 5, 8>>,
       <<0, 4, 8>>,
       <<2, 4, 6>> >>

\* That file's calculateWinner: the same loop over its own table.
boardCalculateWinner(squares) ==
    ScanLines(squares, BoardLines, 1)

\* Variant: the turn flag is not flipped.
boardHandleClickKeepTurn(i) ==
    LET squares == boardState.squares
    IN  IF squares[i] # Null \/ boardCalculateWinner(squares) # Null
        THEN UNCHANGED boardState
        ELSE boardState' =
                 [squares |-> [squares EXCEPT ![i] = IF boardState.xIsNext THEN "X" ELSE "O"],
                  xIsNext |-> boardState.xIsNext]

\* Board.handleClick(i): copy the squares, return when they have a winner or
\* square i is taken, else mark the square and flip the turn.
boardHandleClick(i) ==
    LET squares == boardState.squares
    IN  IF squares[i] # Null \/ boardCalculateWinner(squares) # Null
        THEN UNCHANGED boardState
        ELSE boardState' =
                 [squares |-> [squares EXCEPT ![i] = IF boardState.xIsNext THEN "X" ELSE "O"],
                  xIsNext |-> ~boardState.xIsNext]

----------------------------------------------------------------------------
(* What render offers.                                                     *)

\* The steps render offers: history.map((step, move) => ...) gives one
\* button per index of history.
Moves == {k - 1 : k \in DOMAIN history}

\* JavaScript history[k].squares.
Snapshot(k) == history[k + 1].squares

Current == Snapshot(stepNumber)

----------------------------------------------------------------------------
(* The user's events.                                                      *)

\* What lastOp keeps as the argument of a click on a taken square: an index
\* no square has.
Taken == NumSquares

\* The argument lastOp keeps for a click on square i.
ClickArg(i) == IF Current[i] = Null THEN i ELSE Taken

\* A click on square i of the board shown: Square.onClick -> handleClick(i).
\* An accepted click sets stepNumber and xIsNext, so it changes state even
\* when the history it builds equals the old one.
ClickSquare(i) ==
    /\ handleClick(i)
    /\ lastOp' = [op |-> "handleClick", arg |-> ClickArg(i), ok |-> (state' # state)]
    /\ nAccepted' = IF state' # state THEN nAccepted + 1 ELSE nAccepted
    /\ UNCHANGED <<board, result, boardState>>

\* A click on the button of move in the list of moves: jumpTo(move).
ClickMove(move) ==
    /\ jumpTo(move)
    /\ lastOp' = [op |-> "jumpTo", arg |-> move, ok |-> TRUE]
    /\ UNCHANGED <<nAccepted, board, result, boardState>>

\* The same click on square i in both variants.
LockstepSquare(i) ==
    /\ handleClick(i)
    /\ boardHandleClick(i)
    /\ lastOp' = [op |-> "handleClick", arg |-> ClickArg(i), ok |-> (state' # state)]
    /\ nAccepted' = IF state' # state THEN nAccepted + 1 ELSE nAccepted
    /\ UNCHANGED <<board, result>>

\* calculateWinner is applied to the board.
Evaluate ==
    /\ result = Unset
    /\ result' = calculateWinner(board)
    /\ UNCHANGED <<history, stepNumber, xIsNext, lastOp, nAccepted, board, boardState>>

----------------------------------------------------------------------------
(* Specifications.                                                         *)

\* Game.constructor.
Init ==
    /\ history = << [squares |-> EmptySquares] >>
    /\ stepNumber = 0
    /\ xIsNext = TRUE
    /\ lastOp = [op |-> "constructor", arg |-> 0, ok |-> TRUE]
    /\ nAccepted = 0
    /\ board = EmptySquares
    /\ result = Unset
    /\ boardState = [squares |-> EmptySquares, xIsNext |-> TRUE]

\* The Game: the user clicks any of the nine squares or any button of the
\* list of moves.  Its states are the 549,946 histories a game of clicks
\* can build, each shown at every one of its steps: 4,759,291 states.
Next ==
    \/ \E i \in Indices : ClickSquare(i)
    \/ \E move \in Moves : ClickMove(move)

Spec == Init /\ [][Next]_vars

\* The Game played without the list of moves: the user clicks any of the
\* nine squares, in any state.
NextPlay ==
    \E i \in Indices : ClickSquare(i)

SpecPlay == Init /\ [][NextPlay]_vars

\* The Game and the Board of the variant without history, played without
\* the list of moves: every click goes to both.
NextLockstep ==
    \E i \in Indices : LockstepSquare(i)

SpecLockstep == Init /\ [][NextLockstep]_vars

\* calculateWinner on every assignment of null, X and O to the nine squares.
InitBoards ==
    /\ history = << [squares |-> EmptySquares] >>
    /\ stepNumber = 0
    /\ xIsNext = TRUE
    /\ lastOp = [op |-> "constructor", arg |-> 0, ok |-> TRUE]
    /\ nAccepted = 0
    /\ board \in AllBoards
    /\ result = Unset
    /\ boardState = [squares |-> EmptySquares, xIsNext |-> TRUE]

NextBoards ==
    Evaluate

SpecBoards == InitBoards /\ [][NextBoards]_vars

----------------------------------------------------------------------------
(* Notions the properties use.                                             *)

\* Line l of squares is filled with one mark.
Complete(squares, l) ==
    /\ squares[l[1]] \in Marks
    /\ squares[l[2]] = squares[l[1]]
    /\ squares[l[3]] = squares[l[1]]

CompleteLines(squares) == {k \in 1 .. Len(Lines) : Complete(squares, Lines[k])}

HasLine(squares) == CompleteLines(squares) # {}

Full(squares) == \A c \in Indices : squares[c] \in Marks

----------------------------------------------------------------------------
(* Properties.                                                             *)

Mark(turn) == IF turn THEN "X" ELSE "O"

C3_EveryFilledLine ==
    result # Unset =>
        /\ \A k \in 1 .. Len(Lines) :
               Complete(board, Lines[k]) => result = board[Lines[k][1]]
        /\ ~HasLine(board) => result = Null

\* C3, amended: calculateWinner returns the mark of a filled line of the
\* board, which is the mark of every filled line when they all hold the same
\* mark, and null for a board without a filled line.
C3_SomeFilledLine ==
    result # Unset =>
        /\ HasLine(board) => result \in {board[Lines[k][1]] : k \in CompleteLines(board)}
        /\ \A m \in Marks :
               (HasLine(board) /\ \A k \in CompleteLines(board) : board[Lines[k][1]] = m)
                   => result = m
        /\ ~HasLine(board) => result = Null

\* A board whose only filled line holds O was evaluated.
C3_Witness ==
    /\ result = "O"
    /\ Cardinality(CompleteLines(board)) = 1

\* C4: calculateWinner returns the mark of the filled line that comes first
\* in the table, and null when no line is filled.
C4_FirstLineInOrder ==
    result # Unset =>
        IF CompleteLines(board) = {}
        THEN result = Null
        ELSE LET first == CHOOSE k \in CompleteLines(board) :
                              \A j \in CompleteLines(board) : k <= j
             IN  result = board[Lines[first][1]]

\* A board with a filled line of O after a filled line of X was evaluated.
C4_Witness ==
    /\ result = "X"
    /\ \E j, k \in CompleteLines(board) :
           /\ j < k
           /\ board[Lines[j][1]] = "X"
           /\ board[Lines[k][1]] = "O"

\* C7: in a game played without jumpTo, after n accepted clicks history has
\* n + 1 entries and the pointer is n.
C7_LengthCountsMoves ==
    /\ Len(history) = nAccepted + 1
    /\ stepNumber = nAccepted

\* A click was rejected after the nine moves of the spec's draw game had
\* been accepted.
C7_Witness ==
    /\ nAccepted = 9
    /\ lastOp.op = "handleClick"
    /\ ~lastOp.ok
    /\ Current = [c \in Indices |-> IF c \in {0, 2, 3, 7, 8} THEN "X" ELSE "O"]

\* C9: in a game played without jumpTo, once the snapshot shown holds a
\* winning line or has no empty square, none of the nine clicks changes the
\* state: a step that changes it starts from a snapshot that has neither.
C9_WonAndDrawnAbsorb ==
    [][state' # state => ~(HasLine(Current) \/ Full(Current))]_vars

\* The spec's won game: after the moves 0, 4, 1, 3, 2 the click on square 5
\* was rejected.
C9_Witness ==
    /\ lastOp.op = "handleClick"
    /\ ~lastOp.ok
    /\ lastOp.arg = 5
    /\ Len(history) = 6
    /\ Snapshot(1)[0] = "X"
    /\ Snapshot(2)[4] = "O"
    /\ Snapshot(3)[1] = "X"
    /\ Snapshot(4)[3] = "O"
    /\ Snapshot(5)[2] = "X"

\* The squares of a snapshot that hold a mark.
Occupied(squares) == {c \in Indices : squares[c] # Null}

\* JavaScript history.length - 1, the index of the last snapshot.
LastStep == Len(history) - 1

Changed(k) == {c \in Indices : Snapshot(k)[c] # Snapshot(k - 1)[c]}

C15_VariantsAgree ==
    [][/\ (state' = state) <=> (boardState' = boardState)
       /\ state' # state =>
              /\ Current' = boardState'.squares
              /\ xIsNext' = boardState'.xIsNext
              /\ calculateWinner(Current') = boardCalculateWinner(boardState'.squares)]_vars

\* Both variants show a board that O has won and a click on an empty square
\* of it was rejected.
C15_Witness ==
    /\ lastOp.op = "handleClick"
    /\ ~lastOp.ok
    /\ lastOp.arg \in Indices
    /\ boardCalculateWinner(boardState.squares) = "O"
    /\ boardState.squares = Current

\* The squares of a snapshot that hold mark m.
Holding(squares, m) == {c \in Indices : squares[c] = m}

====
